---- MODULE Spec2Model ----
(***************************************************************************)
(* A model of TryFindExt::try_find (src/try_find.rs).                      *)
(*                                                                         *)
(* The producer is an iterator over a finite sequence `items` with a       *)
(* cursor `pos` (the number of items it has yielded so far).  A call of    *)
(* try_find drives the producer through Iterator::try_for_each: it pulls   *)
(* one item with next(), hands it to the closure of lines 31-35, and       *)
(* either goes on (the closure returned Ok(())) or breaks out with the     *)
(* closure's Err payload.  The outcome is then reshaped by lines 36-44.    *)
(* Between calls the caller may start another try_find on the same         *)
(* producer or pull an item directly with next() (lines 62-66).            *)
(***************************************************************************)
EXTENDS Integers, Sequences, FiniteSets

\* Bounds of the model.
MaxLen == 3      \* longest item sequence behind the producer
MaxItem == 2     \* items are drawn from 1..MaxItem
NumErr == 2      \* error values are drawn from 1..NumErr

Item == 1..MaxItem
ErrVal == 1..NumErr

\* Result<T, E> and Option<T> values.
Ok(v) == [tag |-> "Ok", v |-> v]
Err(e) == [tag |-> "Err", e |-> e]
Some(v) == [tag |-> "Some", v |-> v]
None == [tag |-> "None"]
Unit == "()"

\* What a predicate can answer once decomposed by into_result():
\* Ok(false) "no match", Ok(true) "match", Err(e) "failure".
Outcome == {Ok(FALSE), Ok(TRUE)} \cup {Err(e) : e \in ErrVal}

\* The predicates F: FnMut(&Item) -> R the caller can pass.
Predicate == [Item -> Outcome]

\* The slices a producer can iterate over.
ItemSeqs == UNION {[1..n -> Item] : n \in 0..MaxLen}

NoValue == [tag |-> "-"]

VARIABLES
  items,      \* the sequence behind the producer
  pos,        \* number of items the producer has yielded
  pc,         \* "idle" | "next" | "pred" | "finish" | "returned"
  f,          \* the predicate of the call in progress (or of the last call)
  x,          \* the item held by the closure, with its index in items
  done,       \* the value try_for_each returned (line 31)
  result,     \* the value try_find returned
  yielded,    \* what the caller's last direct next() returned (line 66)
  start,      \* pos at the entry of the current/last call
  pulled,     \* number of items next() has yielded to this call
  inspected,  \* indices of the items passed to the predicate by this call
  chained,    \* TRUE if this call directly followed another try_find call
  prevLast,   \* index of the last item the previous call inspected
  prevFailed  \* TRUE if the previous call returned an Err

vars == <<items, pos, pc, f, x, done, result, yielded, start, pulled,
          inspected, chained, prevLast, prevFailed>>

Init ==
  /\ items \in ItemSeqs
  /\ pos = 0
  /\ pc = "idle"
  /\ f = NoValue
  /\ x = NoValue
  /\ done = NoValue
  /\ result = NoValue
  /\ yielded = NoValue
  /\ start = 0
  /\ pulled = 0
  /\ inspected = <<>>
  /\ chained = FALSE
  /\ prevLast = 0
  /\ prevFailed = FALSE

----------------------------------------------------------------------------
\* The producer: a slice iterator.

\* The cursor after next() has yielded an item.
NextPosStuck(p) == p
NextPos(p) == p + 1

\* Iterator::next(): the item at the cursor, or None once exhausted.
IterNext(s, p) == IF p < Len(s) THEN Some(s[p + 1]) ELSE None

----------------------------------------------------------------------------
\* The closure handed to try_for_each (lines 31-35).
ClosureMatchContinues(r, item) ==
  IF r.tag = "Ok"
    THEN Ok(Unit)
    ELSE Err(Err(r.e))

ClosureErrorContinues(r, item) ==
  IF r.tag = "Ok"
    THEN IF r.v THEN Err(Ok(item)) ELSE Ok(Unit)
    ELSE Ok(Unit)

ClosureNoMatchStops(r, item) ==
  IF r.tag = "Ok"
    THEN Err(Ok(item))
    ELSE Err(Err(r.e))

ClosureErrorReplaced(r, item) ==
  IF r.tag = "Ok"
    THEN IF r.v THEN Err(Ok(item)) ELSE Ok(Unit)
    ELSE Err(Err(1))

Closure(r, item) ==
  IF r.tag = "Ok"
    THEN IF r.v THEN Err(Ok(item)) ELSE Ok(Unit)
    ELSE Err(Err(r.e))

\* `match done { Ok(..) => None, Err(x) => Some(x) }` (lines 36-39).
DoneToOption(d) == IF d.tag = "Ok" THEN None ELSE Some(d.e)

\* Option<Result<T, E>>::transpose (line 40).
Transpose(o) ==
  IF o.tag = "None"
    THEN Ok(None)
    ELSE IF o.v.tag = "Ok" THEN Ok(Some(o.v.v)) ELSE Err(o.v.e)

\* Tryable::from_ok / Tryable::from_error for Tryable = Result (lines 41-44, 51).
IntoTryableSwapped(r) == IF r.tag = "Ok" THEN Err(r.v) ELSE Ok(r.e)
IntoTryable(r) == IF r.tag = "Ok" THEN Ok(r.v) ELSE Err(r.e)

----------------------------------------------------------------------------
\* The caller starts try_find(g) on the producer (line 25).
Call(g) ==
  /\ pc \in {"idle", "returned"}
  /\ pc' = "next"
  /\ f' = g
  /\ start' = pos
  /\ pulled' = 0
  /\ inspected' = <<>>
  /\ x' = NoValue
  /\ done' = NoValue
  /\ result' = NoValue
  /\ yielded' = NoValue
  /\ chained' = (pc = "returned")
  /\ prevLast' = IF pc = "returned"
                   THEN IF inspected = <<>> THEN start
                                            ELSE inspected[Len(inspected)]
                   ELSE 0
  /\ prevFailed' = (pc = "returned" /\ result.tag = "Err")
  /\ UNCHANGED <<items, pos>>

\* try_for_each pulls the next item and the producer has one (line 31).
PullSome ==
  /\ pc = "next"
  /\ IterNext(items, pos).tag = "Some"
  /\ x' = [idx |-> pos + 1, v |-> IterNext(items, pos).v]
  /\ pos' = NextPos(pos)
  /\ pulled' = pulled + 1
  /\ pc' = "pred"
  /\ UNCHANGED <<items, f, done, result, yielded, start, inspected, chained,
                 prevLast, prevFailed>>

\* try_for_each pulls the next item and the producer is exhausted (line 31).
PullNone ==
  /\ pc = "next"
  /\ IterNext(items, pos).tag = "None"
  /\ done' = Ok(Unit)
  /\ pc' = "finish"
  /\ UNCHANGED <<items, pos, f, x, result, yielded, start, pulled, inspected,
                 chained, prevLast, prevFailed>>

\* The closure runs on the pulled item: f(&x).into_result() and the match of
\* lines 31-35; try_for_each goes on after Ok(()) and returns an Err at once.
Pred ==
  /\ pc = "pred"
  /\ inspected' = Append(inspected, x.idx)
  /\ LET c == Closure(f[x.v], x.v)
     IN IF c.tag = "Ok"
          THEN /\ pc' = "next"
               /\ done' = done
          ELSE /\ pc' = "finish"
               /\ done' = c
  /\ x' = NoValue
  /\ UNCHANGED <<items, pos, f, result, yielded, start, pulled, chained,
                 prevLast, prevFailed>>

\* Lines 36-44: reshape try_for_each's value into the Tryable and return.
Finish ==
  /\ pc = "finish"
  /\ result' = IntoTryable(Transpose(DoneToOption(done)))
  /\ pc' = "returned"
  /\ UNCHANGED <<items, pos, f, x, done, yielded, start, pulled, inspected,
                 chained, prevLast, prevFailed>>

\* Between calls the caller reads the producer directly: iter.next() (line 66).
\* The value of the previous call has been consumed by then (lines 64-65).
DirectNext ==
  /\ pc \in {"idle", "returned"}
  /\ yielded' = IterNext(items, pos)
  /\ pos' = IF pos < Len(items) THEN NextPos(pos) ELSE pos
  /\ pc' = "idle"
  /\ f' = NoValue
  /\ done' = NoValue
  /\ result' = NoValue
  /\ start' = 0
  /\ pulled' = 0
  /\ inspected' = <<>>
  /\ chained' = FALSE
  /\ prevLast' = 0
  /\ prevFailed' = FALSE
  /\ UNCHANGED <<items, x>>

Next ==
  \/ \E g \in Predicate : Call(g)
  \/ PullSome
  \/ PullNone
  \/ Pred
  \/ Finish
  \/ DirectNext

Spec == Init /\ [][Next]_vars

----------------------------------------------------------------------------
\* Vocabulary of the properties.

Returned == pc = "returned"
Last(s) == s[Len(s)]

\* The indices a + 1, ..., b in order.
Indices(a, b) == [i \in 1..(b - a) |-> a + i]

NoMatch(g, k) == g[items[k]] = Ok(FALSE)
Match(g, k) == g[items[k]] = Ok(TRUE)
Failure(g, k) == g[items[k]].tag = "Err"

\* k is the first index after `from` on which g answers "match" / "failure",
\* every item between being "no match".
FirstMatch(g, from, k) ==
  /\ k \in (from + 1)..Len(items)
  /\ Match(g, k)
  /\ \A j \in (from + 1)..(k - 1) : NoMatch(g, j)

FirstFailure(g, from, k) ==
  /\ k \in (from + 1)..Len(items)
  /\ Failure(g, k)
  /\ \A j \in (from + 1)..(k - 1) : NoMatch(g, j)

\* What a search with g over the items after index `from` is to return.
Stops(g, from) == {k \in (from + 1)..Len(items) : ~NoMatch(g, k)}
Expected(g, from) ==
  IF Stops(g, from) = {}
    THEN Ok(None)
    ELSE LET k == CHOOSE i \in Stops(g, from) : \A j \in Stops(g, from) : i <= j
         IN IF Match(g, k) THEN Ok(Some(items[k])) ELSE Err(g[items[k]].e)

\* The arguments the predicate has received, in call order.
Arguments == [i \in 1..Len(inspected) |-> items[inspected[i]]]

----------------------------------------------------------------------------
\* C1: if the predicate matches on the k-th item and answers "no match" on
\* every item before it, try_find returns Ok(Some(item_k)), the k-th item the
\* producer yielded, and the predicate has received the items up to the k-th
\* and none after it.
C1_FirstMatchReturned ==
  Returned =>
    \A k \in (start + 1)..Len(items) :
      FirstMatch(f, start, k) =>
        /\ result = Ok(Some(items[k]))
        /\ inspected = Indices(start, k)

C1_Witness ==
  /\ Returned
  /\ start = 0
  /\ FirstMatch(f, 0, 2)
  /\ Len(items) >= 3
  /\ result = Ok(Some(items[2]))

\* C2: if the predicate fails with e on the k-th item and answers "no match"
\* on every item before it, try_find returns Err(e) with that same e, and the
\* predicate has received no item after the k-th.
C2_FirstFailurePropagated ==
  Returned =>
    \A k \in (start + 1)..Len(items) :
      FirstFailure(f, start, k) =>
        /\ result = Err(f[items[k]].e)
        /\ inspected = Indices(start, k)

C2_Witness ==
  /\ Returned
  /\ start = 0
  /\ FirstFailure(f, 0, 2)
  /\ Len(items) >= 3
  /\ result = Err(2)

\* C3: if the predicate answers "no match" on every item, try_find returns
\* Ok(None) and the predicate has been called exactly once per item, in
\* producer order.
C3_NoMatchFullTraversal ==
  (Returned /\ \A k \in (start + 1)..Len(items) : NoMatch(f, k)) =>
    /\ result = Ok(None)
    /\ inspected = Indices(start, Len(items))
    /\ Arguments = SubSeq(items, start + 1, Len(items))

C3_Witness ==
  /\ Returned
  /\ start = 0
  /\ Len(items) >= 2
  /\ \A k \in 1..Len(items) : NoMatch(f, k)
  /\ result = Ok(None)

\* C4: after a call that stopped on a match or a failure, the producer has
\* advanced by exactly the number of items inspected, the stopping item
\* included, and the next item it yields is the one right after the stopping
\* item.
C4_StopConsumesExactlyInspected ==
  (Returned /\ done.tag = "Err") =>
    /\ inspected # <<>>
    /\ pos = start + Len(inspected)
    /\ pos = Last(inspected)
    /\ IterNext(items, pos) =
         IF Last(inspected) < Len(items)
           THEN Some(items[Last(inspected) + 1])
           ELSE None

C4_Witness ==
  /\ Returned
  /\ done.tag = "Err"
  /\ Len(inspected) = 2
  /\ pos = 2
  /\ Len(items) = 3

\* C5: a call that directly follows another call on the same producer
\* continues where that one left off: it returns what a fresh search over the
\* items after the previous call's last inspected item returns, and the
\* producer's position has not gone back.
C5_ConsecutiveCallsContinue ==
  /\ [] ( (chained /\ pc # "idle") =>
            /\ prevLast <= start
            /\ start <= pos
            /\ Returned =>
                 /\ result = Expected(f, prevLast)
                 /\ inspected = Indices(prevLast, pos) )
  /\ [][pos' >= pos]_vars

C5_Witness ==
  /\ Returned
  /\ chained
  /\ prevLast = 1
  /\ Len(inspected) = 2
  /\ result # Ok(None)

\* C6: when the items hold both a first match m and a first failure e, the
\* one that comes first decides: the match is returned if it precedes the
\* failure, the error if it precedes the match, and the later of the two is
\* never passed to the predicate.
C6_EarlierOfMatchAndFailureWins ==
  Returned =>
    \A m, e \in (start + 1)..Len(items) :
      ( /\ Match(f, m) /\ \A j \in (start + 1)..(m - 1) : ~Match(f, j)
        /\ Failure(f, e) /\ \A j \in (start + 1)..(e - 1) : ~Failure(f, j) ) =>
        IF m < e
          THEN /\ result = Ok(Some(items[m]))
               /\ \A i \in 1..Len(inspected) : inspected[i] # e
          ELSE /\ result = Err(f[items[e]].e)
               /\ \A i \in 1..Len(inspected) : inspected[i] # m

C6_Witness ==
  /\ Returned
  /\ start = 1
  /\ Len(items) = 3
  /\ Failure(f, 2)
  /\ Match(f, 3)
  /\ result.tag = "Err"

\* C7: on an empty producer try_find returns Ok(None) whatever the predicate,
\* and the predicate is never called.
C7_EmptyProducer ==
  (Returned /\ start = Len(items)) =>
    /\ result = Ok(None)
    /\ inspected = <<>>
    /\ pulled = 0

C7_Witness ==
  /\ Returned
  /\ items = <<>>
  /\ result = Ok(None)

\* C8: Ok(None) is returned only when the producer is exhausted and every item
\* it yielded was "no match"; an Err is returned only when the predicate failed
\* on an inspected item; exhaustion alone never gives an Err.
C8_NotFoundIsNotError ==
  Returned =>
    /\ result = Ok(None) =>
         /\ pos = Len(items)
         /\ inspected = Indices(start, Len(items))
         /\ \A k \in (start + 1)..Len(items) : NoMatch(f, k)
    /\ result.tag = "Err" =>
         /\ inspected # <<>>
         /\ Failure(f, Last(inspected))
         /\ result = Err(f[items[Last(inspected)]].e)
    /\ done = Ok(Unit) => result.tag = "Ok"

C8_Witness ==
  /\ Returned
  /\ result.tag = "Err"
  /\ Len(inspected) = 3

\* C9: during a call every pulled item is passed to the predicate exactly
\* once, in order, before the next one is pulled: pulls and predicate calls
\* are equal in number except while the one pulled item awaits its call, and
\* nothing is pulled or inspected after a "match" or a "failure".
C9_OnePredicateCallPerPull ==
  (pc # "idle") =>
    /\ pc \in {"next", "finish", "returned"} => pulled = Len(inspected)
    /\ pc = "pred" => /\ pulled = Len(inspected) + 1
                      /\ x.idx = start + pulled
    /\ inspected = Indices(start, start + Len(inspected))
    /\ pos = start + pulled
    /\ \A i \in 1..(Len(inspected) - 1) : NoMatch(f, inspected[i])
    /\ pc \in {"next", "pred"} =>
         \A i \in 1..Len(inspected) : NoMatch(f, inspected[i])

C9_Witness ==
  /\ pc = "pred"
  /\ pulled = 3
  /\ Len(inspected) = 2

\* C10: a failing item is consumed and not retried: a call that returned Err
\* leaves the producer right after the failing item, and the call that follows
\* never passes that item to the predicate and returns what a fresh search
\* over the remaining items returns.
C10_FailingItemNotRetried ==
  /\ (Returned /\ result.tag = "Err") =>
       /\ inspected # <<>>
       /\ pos = Last(inspected)
       /\ Failure(f, pos)
  /\ (chained /\ prevFailed /\ pc # "idle") =>
       /\ start = prevLast
       /\ \A i \in 1..Len(inspected) : inspected[i] > prevLast
       /\ Returned => result = Expected(f, start)

C10_Witness ==
  /\ Returned
  /\ chained
  /\ prevFailed
  /\ prevLast = 1
  /\ Len(inspected) >= 1
  /\ Failure(f, 1)

====
